---- MODULE Spec2Model ----
(***************************************************************************)
(* Model of analyze_spreadsheet_agent.py: run_analysis drives one remote   *)
(* analysis job (upload, agent, thread, message, run, downloads) and main  *)
(* calls it without any exception handler.                                 *)
(*                                                                         *)
(* The remote service is the environment: every remote call either         *)
(* returns or raises, and the values it returns (ids, job status, output   *)
(* list, file contents) are chosen nondeterministically from small sets.   *)
(* create_and_poll is the client library's helper: it submits the run and  *)
(* then retrieves its status until the status is terminal, and returns the *)
(* run object; the call site passes it no deadline and never reads the     *)
(* status of the object it gets back.  Standard output is not modelled,    *)
(* and local file writes are taken to succeed.                             *)
(***************************************************************************)
EXTENDS Integers, Sequences, FiniteSets, TLC

\* ---- bounds of the model ----
MaxOut == 3        \* longest output list the remote job returns
MaxPolls == 3      \* the poll counter saturates here

\* ---- values ----
None == "None"                            \* Python's None
UploadIds == {"file-in"}                  \* ids the remote gives the upload
AgentIds == {"agent-1"}
ThreadIds == {"thread-1"}
FileIds == {"file-1", "file-2"}           \* ids of files the job produced
Filenames == {None, "", "chart.png"}      \* item.filename as sent by the remote
Contents == {"bytes-a", "bytes-b"}
Absent == "absent"                        \* no such file on disk
LocalNames == FileIds \cup (Filenames \ {None, ""})

CallKinds == {"upload", "agent", "thread", "message", "submit", "poll", "download"}
Terminal == {"succeeded", "failed", "cancelled", "expired"}
NotSucceeded == {"failed", "cancelled", "expired"}

TextItem == [type |-> "output_text", file_id |-> None, filename |-> None]
FileItems == [type : {"output_file"}, file_id : FileIds, filename : Filenames]
Items == {TextItem} \cup FileItems
Outputs == UNION {[1..n -> Items] : n \in 0..MaxOut}

VARIABLES
    workbookExists, \* does the path given on the command line exist
    api_key,        \* TRUE when --api-key was given
    pc,             \* position in run_analysis
    err,            \* the exception that left run_analysis, or None
    exitStatus,     \* None while main runs, then the process exit status "0" or "1"
    client,         \* how the client was built
    calls,          \* remote calls issued so far, per kind
    lastCall,       \* kind of the latest remote call
    failedCall,     \* kind of the remote call that raised, or None
    uploaded,       \* uploaded.id
    agent,          \* agent.id
    thread,         \* thread.id
    message,        \* the message the remote received
    run,            \* the run the remote received
    status,         \* latest status of the run seen by a poll
    output,         \* run.output
    remote,         \* content the remote holds per produced file id
    idx,            \* position of the download loop in run.output
    content,        \* bytes returned by the latest files.content call
    disk,           \* the working directory: name -> content
    writes,         \* local file writes, in order
    pass,           \* 1 in run_analysis, 2 when the loop is run again
    snapshot        \* the working directory when the loop was run again

vars == <<workbookExists, api_key, pc, err, exitStatus, client, calls, lastCall,
          failedCall, uploaded, agent, thread, message, run, status, output,
          remote, idx, content, disk, writes, pass, snapshot>>

inputs == <<workbookExists, api_key>>
ids == <<uploaded, agent, thread, message, run>>
job == <<status, output, remote>>
files == <<idx, content, disk, writes>>
refetch == <<pass, snapshot>>

NoMessage == [thread_id |-> None, file_id |-> None]   \* no message sent yet
NoRun == [thread_id |-> None, agent_id |-> None]      \* no run created yet

EmptyDisk == [n \in LocalNames |-> Absent]

Init ==
    /\ workbookExists \in BOOLEAN
    /\ api_key \in BOOLEAN
    /\ pc = "client"
    /\ err = None
    /\ exitStatus = None
    /\ client = None
    /\ calls = [k \in CallKinds |-> 0]
    /\ lastCall = None
    /\ failedCall = None
    /\ uploaded = None
    /\ agent = None
    /\ thread = None
    /\ message = NoMessage
    /\ run = NoRun
    /\ status = None
    /\ output = <<>>
    /\ remote \in [FileIds -> Contents]
    /\ idx = 1
    /\ content = None
    /\ disk = EmptyDisk
    /\ writes = <<>>
    /\ pass = 1
    /\ snapshot = EmptyDisk

\* ---- helpers ----
Min(a, b) == IF a < b THEN a ELSE b

\* a remote call of kind k is issued
Issue(k) ==
    /\ calls' = [calls EXCEPT ![k] = IF k = "poll" THEN Min(@ + 1, MaxPolls) ELSE @ + 1]
    /\ lastCall' = k

\* an exception leaves run_analysis and, main having no handler, the process
Raise(e) ==
    /\ pc' = "raised"
    /\ err' = e
    /\ exitStatus' = "1"

\* the remote call of kind k raises
CallFails(k) ==
    /\ Issue(k)
    /\ failedCall' = k
    /\ Raise("TransportError")

\* Python truthiness of item.filename
Falsy(x) == x = None \/ x = ""

\* filename = f"{file_id}": the suggested name is ignored
LocalName_IdOnly(item) == item.file_id

\* filename = item.filename or f"{file_id}"
LocalName(item) == IF Falsy(item.filename) THEN item.file_id ELSE item.filename

\* open(filename, "xb"): the first file of a name is kept
DiskWrite_KeepFirst(d, name, c) == IF d[name] = Absent THEN [d EXCEPT ![name] = c] ELSE d

\* open(filename, "ab"): an existing file grows instead of being replaced
DiskWrite_Append(d, name, c) ==
    [d EXCEPT ![name] = IF d[name] = Absent THEN c ELSE "appended"]

\* with open(filename, "wb") as f: f.write(content)
DiskWrite(d, name, c) == [d EXCEPT ![name] = c]

\* ---- run_analysis ----
MakeClient ==
    /\ pc = "client"
    /\ client' = IF api_key THEN "api_key" ELSE "environment"
    /\ pc' = "open"
    /\ UNCHANGED <<inputs, err, exitStatus, calls, lastCall, failedCall, ids, job, files, refetch>>

\* the path is only handed on, the file is not opened before the upload
OpenWorkbook_NoCheck ==
    /\ pc = "open"
    /\ pc' = "upload"
    /\ UNCHANGED <<inputs, err, exitStatus, client, calls, lastCall, failedCall, ids, job,
                   files, refetch>>

OpenWorkbook ==
    /\ pc = "open"
    /\ IF workbookExists
          THEN pc' = "upload" /\ UNCHANGED <<err, exitStatus>>
          ELSE Raise("InvalidInputError")
    /\ UNCHANGED <<inputs, client, calls, lastCall, failedCall, ids, job, files, refetch>>

\* a failed upload is tried once more
UploadFile_Retry ==
    /\ pc = "upload"
    /\ \/ /\ \E id \in UploadIds : uploaded' = id
          /\ Issue("upload")
          /\ pc' = "agent"
          /\ UNCHANGED <<err, exitStatus, failedCall>>
       \/ /\ calls["upload"] = 0
          /\ Issue("upload")
          /\ failedCall' = "upload"
          /\ UNCHANGED <<pc, err, exitStatus, uploaded>>
       \/ /\ calls["upload"] > 0
          /\ CallFails("upload")
          /\ UNCHANGED uploaded
    /\ UNCHANGED <<inputs, client, agent, thread, message, run, job, files, refetch>>

UploadFile ==
    /\ pc = "upload"
    /\ \/ /\ \E id \in UploadIds : uploaded' = id
          /\ Issue("upload")
          /\ pc' = "agent"
          /\ UNCHANGED <<err, exitStatus, failedCall>>
       \/ /\ CallFails("upload")
          /\ UNCHANGED uploaded
    /\ UNCHANGED <<inputs, client, agent, thread, message, run, job, files, refetch>>

CreateAgent ==
    /\ pc = "agent"
    /\ \/ /\ \E id \in AgentIds : agent' = id
          /\ Issue("agent")
          /\ pc' = "thread"
          /\ UNCHANGED <<err, exitStatus, failedCall>>
       \/ /\ CallFails("agent")
          /\ UNCHANGED agent
    /\ UNCHANGED <<inputs, client, uploaded, thread, message, run, job, files, refetch>>

CreateThread ==
    /\ pc = "thread"
    /\ \/ /\ \E id \in ThreadIds : thread' = id
          /\ Issue("thread")
          /\ pc' = "message"
          /\ UNCHANGED <<err, exitStatus, failedCall>>
       \/ /\ CallFails("thread")
          /\ UNCHANGED thread
    /\ UNCHANGED <<inputs, client, uploaded, agent, message, run, job, files, refetch>>

\* attachments=[{"file_id": agent.id}]
CreateMessage_WrongAttachment ==
    /\ pc = "message"
    /\ \/ /\ message' = [thread_id |-> thread, file_id |-> agent]
          /\ Issue("message")
          /\ pc' = "submit"
          /\ UNCHANGED <<err, exitStatus, failedCall>>
       \/ /\ CallFails("message")
          /\ UNCHANGED message
    /\ UNCHANGED <<inputs, client, uploaded, agent, thread, run, job, files, refetch>>

CreateMessage ==
    /\ pc = "message"
    /\ \/ /\ message' = [thread_id |-> thread, file_id |-> uploaded]
          /\ Issue("message")
          /\ pc' = "submit"
          /\ UNCHANGED <<err, exitStatus, failedCall>>
       \/ /\ CallFails("message")
          /\ UNCHANGED message
    /\ UNCHANGED <<inputs, client, uploaded, agent, thread, run, job, files, refetch>>

\* create_and_poll, first half: the run is created
SubmitRun ==
    /\ pc = "submit"
    /\ \/ /\ run' = [thread_id |-> thread, agent_id |-> agent]
          /\ status' = "queued"
          /\ Issue("submit")
          /\ pc' = "poll"
          /\ UNCHANGED <<err, exitStatus, failedCall>>
       \/ /\ CallFails("submit")
          /\ UNCHANGED <<run, status>>
    /\ UNCHANGED <<inputs, client, uploaded, agent, thread, message, output, remote, files, refetch>>

StatusRank(s) == IF s = "queued" THEN 1 ELSE IF s = "running" THEN 2 ELSE 3

\* create_and_poll, second half: one status retrieval; a terminal status
\* returns the run object to run_analysis, which goes on to its outputs
PollRun ==
    /\ pc = "poll"
    /\ \/ /\ \E s \in {"queued", "running"} :
                /\ StatusRank(s) >= StatusRank(status)
                /\ status' = s
          /\ Issue("poll")
          /\ pc' = "sleep"
          /\ UNCHANGED <<err, exitStatus, failedCall, output>>
       \/ /\ \E s \in Terminal : status' = s
          /\ \E out \in Outputs : output' = out
          /\ Issue("poll")
          /\ pc' = "loop"
          /\ UNCHANGED <<err, exitStatus, failedCall>>
       \/ /\ CallFails("poll")
          /\ UNCHANGED <<status, output>>
    /\ UNCHANGED <<inputs, client, ids, remote, files, refetch>>

\* create_and_poll, between two status retrievals: the poll interval passes
SleepInterval ==
    /\ pc = "sleep"
    /\ pc' = "poll"
    /\ UNCHANGED <<inputs, err, exitStatus, client, calls, lastCall, failedCall, ids, job,
                   files, refetch>>

\* for item in run.output: exhausted, run_analysis and main return
FinishLoop ==
    /\ pc = "loop"
    /\ idx > Len(output)
    /\ pc' = "done"
    /\ exitStatus' = "0"
    /\ UNCHANGED <<inputs, err, client, calls, lastCall, failedCall, ids, job, files, refetch>>

\* if item.type != "output_file": continue
SkipItem ==
    /\ pc = "loop"
    /\ idx <= Len(output)
    /\ output[idx].type # "output_file"
    /\ idx' = idx + 1
    /\ UNCHANGED <<inputs, pc, err, exitStatus, client, calls, lastCall, failedCall, ids, job,
                   content, disk, writes, refetch>>

\* the local file is opened for writing before its content is requested
FetchContent_OpenFirst ==
    /\ pc = "loop"
    /\ idx <= Len(output)
    /\ output[idx].type = "output_file"
    /\ \/ /\ content' = remote[output[idx].file_id]
          /\ Issue("download")
          /\ pc' = "write"
          /\ UNCHANGED <<err, exitStatus, failedCall, disk>>
       \/ /\ CallFails("download")
          /\ disk' = [disk EXCEPT ![LocalName(output[idx])] = ""]
          /\ UNCHANGED content
    /\ UNCHANGED <<inputs, client, ids, job, idx, writes, refetch>>

\* content = client.files.content(file_id)
FetchContent ==
    /\ pc = "loop"
    /\ idx <= Len(output)
    /\ output[idx].type = "output_file"
    /\ \/ /\ content' = remote[output[idx].file_id]
          /\ Issue("download")
          /\ pc' = "write"
          /\ UNCHANGED <<err, exitStatus, failedCall>>
       \/ /\ CallFails("download")
          /\ UNCHANGED content
    /\ UNCHANGED <<inputs, client, ids, job, idx, disk, writes, refetch>>

\* with open(filename, "wb") as f: f.write(content)
WriteFile ==
    /\ pc = "write"
    /\ disk' = DiskWrite(disk, LocalName(output[idx]), content)
    /\ writes' = Append(writes, [name |-> LocalName(output[idx]), content |-> content])
    /\ idx' = idx + 1
    /\ pc' = "loop"
    /\ UNCHANGED <<inputs, err, exitStatus, client, calls, lastCall, failedCall, ids, job,
                   content, refetch>>

Next ==
    \/ MakeClient
    \/ OpenWorkbook
    \/ UploadFile
    \/ CreateAgent
    \/ CreateThread
    \/ CreateMessage
    \/ SubmitRun
    \/ PollRun
    \/ SleepInterval
    \/ FinishLoop
    \/ SkipItem
    \/ FetchContent
    \/ WriteFile

Spec == Init /\ [][Next]_vars

\* the program is sequential: whatever step is enabled is eventually taken
FairSpec == Init /\ [][Next]_vars /\ WF_vars(Next)

\* the download loop of a completed run is run once more by the caller,
\* on the same run object and in the same working directory
Refetch ==
    /\ pc = "done"
    /\ pass = 1
    /\ pass' = 2
    /\ snapshot' = disk
    /\ idx' = 1
    /\ pc' = "loop"
    /\ exitStatus' = None
    /\ UNCHANGED <<inputs, err, client, calls, lastCall, failedCall, ids, job,
                   content, disk, writes>>

NextRefetch == Next \/ Refetch

SpecRefetch == Init /\ [][NextRefetch]_vars

\* ---- what the properties speak about ----
IsFileKind(item) == item.type = "output_file"

\* the suggested filename, or the remote file id when none is supplied
SuggestedOrId(item) ==
    IF item.filename = None \/ item.filename = "" THEN item.file_id ELSE item.filename

FileKindItems(out) == SelectSeq(out, IsFileKind)

\* one write per file-kind item of out, in order
ExpectedWrites(out) ==
    [i \in 1..Len(FileKindItems(out)) |->
        [name |-> SuggestedOrId(FileKindItems(out)[i]),
         content |-> remote[FileKindItems(out)[i].file_id]]]

\* positions of out whose item is a file stored under name n
Resolving(out, n) == {i \in 1..Len(out) : IsFileKind(out[i]) /\ SuggestedOrId(out[i]) = n}

Last(S) == CHOOSE i \in S : \A j \in S : j <= i

\* the working directory that the writes ws leave, starting empty
DiskAfter(ws) ==
    [n \in LocalNames |->
        IF \E i \in 1..Len(ws) : ws[i].name = n
           THEN ws[Last({i \in 1..Len(ws) : ws[i].name = n})].content
           ELSE Absent]

CallRank(k) ==
    CASE k = None -> 0
      [] k = "upload" -> 1
      [] k = "agent" -> 2
      [] k = "thread" -> 3
      [] k = "message" -> 4
      [] k = "submit" -> 5
      [] k = "poll" -> 6
      [] k = "download" -> 7

\* run_analysis is inside create_and_poll, waiting for a terminal status
Waiting == pc \in {"poll", "sleep"}

\* C1: once the wait for completion has ended on a status of failed,
\* cancelled or expired, run_analysis has raised JobFailedError
C1_NotSucceededRaises ==
    (status \in NotSucceeded /\ ~Waiting) => (pc = "raised" /\ err = "JobFailedError")

\* C2: a file-content download has been issued only if the job's terminal
\* status is succeeded
C2_DownloadOnlyAfterSuccess ==
    calls["download"] > 0 => status = "succeeded"

\* C3: the wait for completion always comes to an end
C3_WaitTerminates ==
    Waiting ~> ~Waiting

\* C4: when the workbook path does not exist, run_analysis has raised an
\* invalid-input error once it is past opening the file, and no remote call
\* was issued, with or without an API key argument
C4_MissingWorkbookNoNetwork ==
    (~workbookExists /\ pc \notin {"client", "open"}) =>
        /\ pc = "raised"
        /\ err = "InvalidInputError"
        /\ \A k \in CallKinds : calls[k] = 0
        /\ lastCall = None

C4_Witness ==
    ~workbookExists /\ pc = "raised" /\ client = "environment" /\ exitStatus = "1"

\* C5: remote calls are issued in the order upload, agent, thread, message,
\* submit, polls, downloads; each of the first five at most once; the run is
\* bound to the thread of the message that carries the uploaded file id, and
\* to the agent created in this run
C5_Bindings ==
    /\ \A k \in {"upload", "agent", "thread", "message", "submit"} : calls[k] <= 1
    /\ calls["agent"] > 0 => calls["upload"] = 1
    /\ calls["thread"] > 0 => calls["agent"] = 1
    /\ calls["message"] > 0 => calls["thread"] = 1
    /\ calls["submit"] > 0 => calls["message"] = 1
    /\ calls["poll"] > 0 => calls["submit"] = 1
    /\ calls["download"] > 0 => calls["poll"] > 0
    /\ run # NoRun =>
          /\ message # NoMessage
          /\ uploaded \in UploadIds
          /\ agent \in AgentIds
          /\ thread \in ThreadIds
          /\ message.file_id = uploaded
          /\ message.thread_id = thread
          /\ run.thread_id = message.thread_id
          /\ run.agent_id = agent

C5_SequentialOrder ==
    [][C5_Bindings' /\ CallRank(lastCall') >= CallRank(lastCall)]_vars

C5_Witness ==
    pc = "done" /\ calls["poll"] >= 2 /\ calls["download"] >= 2 /\ run # NoRun

\* C6: after a succeeded job whose downloads all succeeded, the local file
\* writes are exactly the file-kind items of the output list, in order, each
\* under its suggested filename or else its file id, with that id's content
C6_WritesMatchFileItems ==
    (pc = "done" /\ pass = 1 /\ status = "succeeded") => writes = ExpectedWrites(output)

C6_Witness ==
    /\ pc = "done" /\ pass = 1 /\ status = "succeeded"
    /\ \E i, j, k \in 1..Len(output) :
          /\ output[i].type = "output_text"
          /\ output[j].type = "output_file" /\ output[j].filename = "chart.png"
          /\ output[k].type = "output_file" /\ output[k].filename = None
    /\ Len(writes) = 2

\* C7: once the download loop has completed, each local name holds the
\* content of the last output item stored under that name
C7_LastWriterWins ==
    (pc = "done" /\ pass = 1) =>
        \A n \in LocalNames :
            disk[n] = IF Resolving(output, n) = {} THEN Absent
                      ELSE remote[output[Last(Resolving(output, n))].file_id]

C7_Witness ==
    /\ pc = "done" /\ pass = 1
    /\ \E i, j \in 1..Len(output) :
          /\ i < j
          /\ IsFileKind(output[i]) /\ IsFileKind(output[j])
          /\ SuggestedOrId(output[i]) = SuggestedOrId(output[j])
          /\ remote[output[i].file_id] # remote[output[j].file_id]

\* C8: running the download loop a second time on the same completed run
\* adds no file, and when it completes every file has the content it had
\* after the first time
C8_RefetchSameFiles ==
    pass = 2 =>
        /\ \A n \in LocalNames : (disk[n] = Absent) <=> (snapshot[n] = Absent)
        /\ pc = "done" => disk = snapshot

C8_Witness ==
    /\ pass = 2 /\ pc = "done"
    /\ Len(writes) = 2 * Len(FileKindItems(output))
    /\ \E n, m \in LocalNames : n # m /\ snapshot[n] # Absent /\ snapshot[m] # Absent
    /\ \E n \in LocalNames : Cardinality(Resolving(output, n)) >= 2

\* C9: when the download of a file-kind item has failed, run_analysis has
\* raised a transport error, the writes made are those of the file-kind
\* items before it, and the working directory holds exactly those writes
C9_DownloadFailureKeepsEarlier ==
    (failedCall = "download" /\ pass = 1) =>
        /\ pc = "raised"
        /\ err = "TransportError"
        /\ writes = ExpectedWrites(SubSeq(output, 1, idx - 1))
        /\ disk = DiskAfter(writes)

C9_Witness ==
    /\ failedCall = "download" /\ pass = 1 /\ pc = "raised"
    /\ Len(writes) >= 1
    /\ idx < Len(output)

\* C10: once a remote call has raised, no remote call is issued any more,
\* and the error has left run_analysis and main
C10_NoRetry ==
    [][/\ failedCall # None => calls' = calls
       /\ failedCall' # None =>
             (pc' = "raised" /\ err' = "TransportError" /\ exitStatus' = "1")]_vars

C10_Witness ==
    /\ failedCall = "poll" /\ pc = "raised" /\ exitStatus = "1"
    /\ calls["poll"] >= 2

====
